---- MODULE Spec2Model ----
(***************************************************************************)
(* A model of the UnderDoc Python SDK client (underdoc/underdoc_client.py):*)
(* client construction, single-image extraction and batch extraction in    *)
(* Sequential and Parallel (ray) mode.                                      *)
(*                                                                          *)
(* Strings the code inspects (paths, URLs, object keys) are sequences of   *)
(* one-character strings, so that split(".") and truthiness are computed.  *)
(* An optional argument (str | None) is a record [isNone, s].              *)
(* The image payload (bytes, base64 text) is left out of the request: no   *)
(* control flow depends on it.                                              *)
(***************************************************************************)
EXTENDS Integers, Sequences, FiniteSets, TLC

VARIABLES
    env,        \* process environment: UNDERDOC_API_KEY, UNDERDOC_API_ENDPOINT
    clients,    \* the Client objects: construction state, api_key, api_endpoint
    ray,        \* process-wide ray runtime: initialized or not
    args,       \* arguments of the current / most recent call
    call,       \* locals of the current / most recent batch call
    last,       \* how the most recent call ended (returned / raised)
    result,     \* value returned by the most recent expense_image_extract
    io          \* I/O operations issued by the most recent expense_image_extract

vars == <<env, clients, ray, args, call, last, result, io>>

----------------------------------------------------------------------------
(* Bounds *)

\* Longest enumerated reference list (glob result / bucket listing).
MaxFiles == 2

----------------------------------------------------------------------------
(* Values *)

None == [isNone |-> TRUE, s |-> <<>>]
Some(str) == [isNone |-> FALSE, s |-> str]

\* Python truthiness of a `str | None` argument: None and "" are falsy.
Truthy(x) == ~x.isNone /\ x.s # <<>>

\* File names, URLs and object keys the calls are tried on.
Names ==
    { <<"a", ".", "j", "p", "g">>,
      <<"b", ".", "p", "n", "g">>,
      <<"c", ".", "g", "i", "f">> }

EmptyStr == <<>>

ClientIds == {1}

\* Values of the api_key constructor argument and of the environment.
ApiKeyArgs == {None, Some(EmptyStr), Some(<<"k", "1">>)}
EnvKeys == {None, Some(<<"k", "e">>)}
EnvEndpoints == {None, Some(<<"e", "e">>)}

S3Object(bucket, key) == [isNone |-> FALSE, bucket_name |-> bucket, object_key |-> key]
NoS3Object == [isNone |-> TRUE, bucket_name |-> <<>>, object_key |-> <<>>]

Bucket == <<"b", "k", "t">>

ImageFormat == {"jpeg", "png"}

ExpenseImageType == {"Receipt", "Invoice", "Others"}

BatchExecutionMode == {"Sequential", "Parallel"}

DefaultEndpoint == <<"h", "t", "t", "p", "s", ":", "/", "/", "a", "p", "i", ".", "u", "n", "d", "e", "r", "d", "o", "c", ".", "i", "o">>

\* Settings(): both fields are read from the environment, the endpoint has a default.
Settings(e) ==
    [ underdoc_api_key |-> e.key,
      underdoc_api_endpoint |-> IF e.endpoint.isNone THEN DefaultEndpoint ELSE e.endpoint.s ]

----------------------------------------------------------------------------
(* What the outside world may answer *)

\* Reading a local file.
FileIO == {"ok", "open_error", "read_error"}
\* GET of an image URL: httpx.RequestError, httpx.HTTPStatusError.
UrlIO == {"ok", "request_error", "status_error"}
\* S3: boto3.client('s3') itself, get_object, reading the body.
S3IO == {"ok", "client_error", "get_error", "read_error"}

\* Responses of POST {endpoint}/expenses/extract: status and body. A body is
\* described by what model_validate_json looks at.
Responses ==
    { [status_code |-> 200, has_receipt_data |-> TRUE,  image_type |-> "Receipt", text |-> "receipt"],
      [status_code |-> 200, has_receipt_data |-> TRUE,  image_type |-> "Invoice", text |-> "invoice"],
      [status_code |-> 200, has_receipt_data |-> TRUE,  image_type |-> "Bogus",   text |-> "bogus"],
      [status_code |-> 200, has_receipt_data |-> FALSE, image_type |-> "",        text |-> "empty"],
      [status_code |-> 500, has_receipt_data |-> FALSE, image_type |-> "",        text |-> "error"] }

NoResponse == [status_code |-> 0, has_receipt_data |-> FALSE, image_type |-> "", text |-> ""]

\* ExpenseExtractionResponse.model_validate_json: receipt_data is required and
\* its image_type must be a member of ExpenseImageType.
Conforms(resp) == resp.has_receipt_data /\ resp.image_type \in ExpenseImageType

ExpenseData(resp) == [image_type |-> resp.image_type]

NoData == [image_type |-> ""]

----------------------------------------------------------------------------
(* Format inference and request construction *)

Max(S) == CHOOSE m \in S : \A k \in S : k <= m

\* file_path.split(".")[-1]
LastSegment(file_path) ==
    LET dots == {k \in 1..Len(file_path) : file_path[k] = "."}
    IN  IF dots = {} THEN file_path
        ELSE SubSeq(file_path, Max(dots) + 1, Len(file_path))

_get_image_format(file_path) ==
    LET file_extension == LastSegment(file_path)
    IN  IF file_extension \in {<<"j", "p", "g">>, <<"j", "p", "e", "g">>}
            THEN [raised |-> FALSE, image_format |-> "jpeg"]
        ELSE IF file_extension = <<"p", "n", "g">>
            THEN [raised |-> FALSE, image_format |-> "png"]
        ELSE [raised |-> TRUE, image_format |-> "ValueError"]

\* What a _get_request_from_* helper hands back: a request, None, or an
\* exception that leaves it; io lists the operations it issued.
Request(fmt, ops) == [kind |-> "request", image_format |-> fmt, exc |-> "", io |-> ops]
NoRequest(ops) == [kind |-> "none", image_format |-> "", exc |-> "", io |-> ops]
Raises(e, ops) == [kind |-> "raise", image_format |-> "", exc |-> e, io |-> ops]

\* Mutant: without the blanket `except Exception` an unreadable file raises.
_get_request_from_file_name_propagates(file_name, src) ==
    LET fmt == _get_image_format(file_name)
    IN  IF src = "open_error" THEN Raises("FileNotFoundError", <<"open">>)
        ELSE IF fmt.raised THEN Raises("ValueError", <<"open">>)
        ELSE IF src = "read_error" THEN Raises("OSError", <<"open", "read">>)
        ELSE Request(fmt.image_format, <<"open", "read">>)

_get_request_from_file_name(file_name, src) ==
    LET fmt == _get_image_format(file_name)
    IN  IF src = "open_error" THEN NoRequest(<<"open">>)
        ELSE IF fmt.raised THEN NoRequest(<<"open">>)
        ELSE IF src = "read_error" THEN NoRequest(<<"open", "read">>)
        ELSE Request(fmt.image_format, <<"open", "read">>)

_get_request_from_image_url(image_url, src) ==
    LET fmt == _get_image_format(image_url)
    IN  IF fmt.raised THEN NoRequest(<<>>)
        ELSE IF src = "request_error" THEN NoRequest(<<"GET">>)
        ELSE IF src = "status_error" THEN NoRequest(<<"GET">>)
        ELSE Request(fmt.image_format, <<"GET">>)

_get_request_from_s3_object(s3_object, src) ==
    LET fmt == _get_image_format(s3_object.object_key)
    IN  IF src = "client_error" THEN Raises("BotoCoreError", <<>>)
        ELSE IF fmt.raised THEN NoRequest(<<>>)
        ELSE IF src = "get_error" THEN NoRequest(<<"get_object">>)
        ELSE IF src = "read_error" THEN NoRequest(<<"get_object">>)
        ELSE Request(fmt.image_format, <<"get_object">>)

----------------------------------------------------------------------------
(* Single-item extraction *)

\* What a call ends with.
Returned(v, ops, r) ==
    [status |-> "returned", exc |-> "", text |-> "", isNone |-> FALSE,
     receipt_data |-> v, io |-> ops, response |-> r]
ReturnedNone(ops) ==
    [status |-> "returned", exc |-> "", text |-> "", isNone |-> TRUE,
     receipt_data |-> NoData, io |-> ops, response |-> NoResponse]
Raised(e, t, ops, r) ==
    [status |-> "raised", exc |-> e, text |-> t, isNone |-> TRUE,
     receipt_data |-> NoData, io |-> ops, response |-> r]

\* Which of the three branches (lines 192, 197, 202) the call takes.
Variant(file_name, image_url, s3_object) ==
    IF Truthy(file_name) THEN "file_name"
    ELSE IF Truthy(image_url) THEN "image_url"
    ELSE IF ~s3_object.isNone THEN "s3_object"
    ELSE "unbound"

\* Lines 192-206: the request of the branch taken.
BuildRequest(file_name, image_url, s3_object, src) ==
    LET variant == Variant(file_name, image_url, s3_object)
    IN  CASE variant = "file_name" -> _get_request_from_file_name(file_name.s, src)
          [] variant = "image_url" -> _get_request_from_image_url(image_url.s, src)
          [] variant = "s3_object" -> _get_request_from_s3_object(s3_object, src)
          \* no branch assigned `request`: line 208 reads an unbound local
          [] OTHER -> Raises("UnboundLocalError", <<>>)

\* Lines 195-196, 200-201, 205-206: a ValueError leaving a helper is re-raised
\* as UnderDocException; any other exception passes through.
Wrap(exc) == IF exc = "ValueError" THEN "UnderDocException" ELSE exc

\* Lines 212-227: POST the request and read the answer. A non-200 answer
\* raises UnderDocException(response.text); a body model_validate_json rejects
\* raises pydantic's ValidationError.
SendRequest(request, resp) ==
    LET ops == Append(request.io, "POST")
    IN  IF resp.status_code # 200 THEN Raised("UnderDocException", resp.text, ops, resp)
        ELSE IF ~Conforms(resp) THEN Raised("ValidationError", "", ops, resp)
        ELSE Returned(ExpenseData(resp), ops, resp)

expense_image_extract(file_name, image_url, s3_object, src, resp) ==
    IF file_name.isNone /\ image_url.isNone /\ s3_object.isNone
        THEN Raised("ValueError", "", <<>>, NoResponse)
    ELSE
        LET request == BuildRequest(file_name, image_url, s3_object, src)
        IN  IF request.kind = "raise"
                THEN Raised(Wrap(request.exc), "", request.io, NoResponse)
            ELSE IF request.kind = "none" THEN ReturnedNone(request.io)
            ELSE SendRequest(request, resp)

\* The ray task: the same steps; a result is the pair (source_file_name, response).
_expense_image_extract_parallel(file_name, image_url, s3_object, src, resp) ==
    IF file_name.isNone /\ image_url.isNone /\ s3_object.isNone
        THEN [kind |-> "raise", exc |-> "ValueError", source_file_name |-> <<>>,
              receipt_data |-> NoData]
    ELSE
        LET source_file_name ==
                CASE Variant(file_name, image_url, s3_object) = "file_name" -> file_name.s
                  [] Variant(file_name, image_url, s3_object) = "image_url" -> image_url.s
                  [] OTHER -> s3_object.object_key
            request == BuildRequest(file_name, image_url, s3_object, src)
            sent == SendRequest(request, resp)
        IN  IF request.kind = "raise"
                THEN [kind |-> "raise", exc |-> Wrap(request.exc), source_file_name |-> <<>>,
                      receipt_data |-> NoData]
            ELSE IF request.kind = "none"
                THEN [kind |-> "none", exc |-> "", source_file_name |-> <<>>,
                      receipt_data |-> NoData]
            ELSE IF sent.status = "raised"
                THEN [kind |-> "raise", exc |-> sent.exc, source_file_name |-> <<>>,
                      receipt_data |-> NoData]
            ELSE [kind |-> "result", exc |-> "", source_file_name |-> source_file_name,
                  receipt_data |-> sent.receipt_data]

\* The source outcomes and the service responses a call can meet: a source
\* outcome of the branch taken, and a response only when the POST is reached.
SourceOutcomes(file_name, image_url, s3_object) ==
    CASE Variant(file_name, image_url, s3_object) = "file_name" -> FileIO
      [] Variant(file_name, image_url, s3_object) = "image_url" -> UrlIO
      [] Variant(file_name, image_url, s3_object) = "s3_object" -> S3IO
      [] OTHER -> {"ok"}

ResponsesFor(file_name, image_url, s3_object, src) ==
    IF /\ ~(file_name.isNone /\ image_url.isNone /\ s3_object.isNone)
       /\ BuildRequest(file_name, image_url, s3_object, src).kind = "request"
    THEN Responses ELSE {NoResponse}

----------------------------------------------------------------------------
(* State *)

Unbuilt == [state |-> "unbuilt", arg |-> None, api_key |-> None, api_endpoint |-> <<>>]

NoArgs ==
    [file_name |-> None, image_url |-> None, s3_object |-> NoS3Object, src |-> "ok",
     file_name_pattern |-> None, s3_bucket_name |-> None]

Pending == [kind |-> "pending", exc |-> "", source_file_name |-> <<>>, receipt_data |-> NoData]

NoCall ==
    [active |-> FALSE, mode |-> "Sequential", listed |-> FALSE, submitted |-> FALSE,
     ray_before |-> FALSE, s3list |-> "ok", listing |-> <<>>,
     file_names |-> <<>>, expense_data_list |-> <<>>, extracted |-> <<>>,
     outcomes |-> <<>>]

NoLast == [kind |-> "none", status |-> "", exc |-> "", text |-> ""]

NoResult == [isNone |-> TRUE, receipt_data |-> NoData, response |-> NoResponse]

Init ==
    /\ env \in [key : EnvKeys, endpoint : EnvEndpoints]
    /\ clients = [c \in ClientIds |-> Unbuilt]
    /\ ray = [initialized |-> FALSE]
    /\ args = NoArgs
    /\ call = NoCall
    /\ last = NoLast
    /\ result = NoResult
    /\ io = <<>>

----------------------------------------------------------------------------
(* Client construction *)

\* Lines 32-33: the argument wins, the environment is the fallback.
\* Mutant: the environment wins over the argument.
ResolveApiKey_EnvFirst(api_key, settings) ==
    IF settings.underdoc_api_key.isNone THEN api_key ELSE settings.underdoc_api_key

ResolveApiKey(api_key, settings) ==
    IF api_key.isNone THEN settings.underdoc_api_key ELSE api_key

\* Client.__init__
Construct(c, api_key) ==
    /\ ~call.active
    /\ clients[c].state = "unbuilt"
    /\ LET settings == Settings(env)
           key == ResolveApiKey(api_key, settings)
       IN  IF key.isNone
           THEN /\ clients' = [clients EXCEPT ![c] =
                        [Unbuilt EXCEPT !.state = "failed", !.arg = api_key]]
                /\ last' = [kind |-> "construct", status |-> "raised",
                            exc |-> "ValueError", text |-> ""]
           ELSE /\ clients' = [clients EXCEPT ![c] =
                        [state |-> "ok", arg |-> api_key, api_key |-> key,
                         api_endpoint |-> settings.underdoc_api_endpoint]]
                /\ last' = [kind |-> "construct", status |-> "returned",
                            exc |-> "", text |-> ""]
    /\ args' = NoArgs
    /\ call' = NoCall
    /\ result' = NoResult
    /\ io' = <<>>
    /\ UNCHANGED <<env, ray>>

----------------------------------------------------------------------------
(* expense_image_extract called by the user *)

\* Arguments the call is tried on: none, each variant alone (a supported name,
\* an unsupported one, the empty string) and several at once.
ExtractArgs ==
    LET jpg == <<"a", ".", "j", "p", "g">>
        png == <<"b", ".", "p", "n", "g">>
        gif == <<"c", ".", "g", "i", "f">>
        A(f, u, s) == [file_name |-> f, image_url |-> u, s3_object |-> s]
    IN  { A(None, None, NoS3Object),
          A(Some(jpg), None, NoS3Object),
          A(Some(gif), None, NoS3Object),
          A(Some(EmptyStr), None, NoS3Object),
          A(None, Some(png), NoS3Object),
          A(None, Some(gif), NoS3Object),
          A(None, Some(EmptyStr), NoS3Object),
          A(None, None, S3Object(Bucket, jpg)),
          A(None, None, S3Object(Bucket, gif)),
          A(Some(jpg), Some(png), NoS3Object),
          A(Some(EmptyStr), Some(png), S3Object(Bucket, jpg)),
          A(None, Some(gif), S3Object(Bucket, png)),
          A(Some(EmptyStr), Some(EmptyStr), NoS3Object) }

Extract(c, a, src, resp) ==
    /\ ~call.active
    /\ clients[c].state = "ok"
    /\ LET r == expense_image_extract(a.file_name, a.image_url, a.s3_object, src, resp)
       IN  /\ last' = [kind |-> "extract", status |-> r.status, exc |-> r.exc,
                       text |-> r.text]
           /\ result' = [isNone |-> r.isNone, receipt_data |-> r.receipt_data,
                         response |-> r.response]
           /\ io' = r.io
    /\ args' = [NoArgs EXCEPT !.file_name = a.file_name, !.image_url = a.image_url,
                              !.s3_object = a.s3_object, !.src = src]
    /\ call' = NoCall
    /\ UNCHANGED <<env, clients, ray>>

----------------------------------------------------------------------------
(* expense_image_batch_extract *)

\* What glob.glob or the bucket listing may enumerate: distinct names.
Listings ==
    { l \in UNION {[1..n -> Names] : n \in 0..MaxFiles} :
        \A j, k \in 1..Len(l) : j # k => l[j] # l[k] }

BatchPatterns == {None, Some(EmptyStr), Some(<<"*", ".", "*">>)}
BatchBuckets == {None, Some(Bucket)}

\* list_objects_v2: the call itself may fail; a listing with no object has no
\* 'Contents' key, so response['Contents'] raises KeyError.
_get_files_from_s3_bucket(s3_bucket_name, s3list, listing) ==
    IF s3_bucket_name.isNone \/ s3list = "error"
        THEN [raised |-> TRUE, exc |-> "BotoCoreError", file_names |-> <<>>]
    ELSE IF listing = <<>>
        THEN [raised |-> TRUE, exc |-> "KeyError", file_names |-> <<>>]
    ELSE [raised |-> FALSE, exc |-> "", file_names |-> listing]

\* Lines 316-321.
Enumerate(file_name_pattern, s3_bucket_name, s3list, listing) ==
    IF Truthy(file_name_pattern)
        THEN [raised |-> FALSE, exc |-> "", file_names |-> listing]
    ELSE _get_files_from_s3_bucket(s3_bucket_name, s3list, listing)

\* ray.init() with the defaults: a second call in a process raises RuntimeError.
RayInitRaises == ray.initialized

\* Lines 345-349 (Sequential) : keep a truthy response with its file name.
\* Mutant: a new entry is put in front of the list.
SeqCollect_Prepend(expense_data_list, file_name, response) ==
    IF response.isNone THEN expense_data_list
    ELSE <<[source_file_name |-> file_name, expense_data |-> response.receipt_data]>>
         \o expense_data_list

SeqCollect(expense_data_list, file_name, response) ==
    IF response.isNone THEN expense_data_list
    ELSE Append(expense_data_list,
                [source_file_name |-> file_name, expense_data |-> response.receipt_data])

\* Lines 333-338 (Parallel): keep the truthy responses, in the order of the futures.
RECURSIVE ParCollect(_)
ParCollect(responses) ==
    IF responses = <<>> THEN <<>>
    ELSE LET response == Head(responses)
         IN  IF response.kind = "result"
             THEN <<[source_file_name |-> response.source_file_name,
                     expense_data |-> response.receipt_data]>> \o ParCollect(Tail(responses))
             ELSE ParCollect(Tail(responses))

BatchRaise(e) == [kind |-> "batch", status |-> "raised", exc |-> e, text |-> ""]
BatchReturn == [kind |-> "batch", status |-> "returned", exc |-> "", text |-> ""]

\* Lines 306-331: argument check, enumeration and, in Parallel mode, ray.init()
\* and the submission of one task per file name.
BatchStart(c, file_name_pattern, s3_bucket_name, mode, s3list, listing) ==
    /\ ~call.active
    /\ clients[c].state = "ok"
    /\ args' = [NoArgs EXCEPT !.file_name_pattern = file_name_pattern,
                              !.s3_bucket_name = s3_bucket_name]
    /\ result' = NoResult
    /\ io' = <<>>
    /\ LET files == Enumerate(file_name_pattern, s3_bucket_name, s3list, listing)
           started == [NoCall EXCEPT !.mode = mode, !.ray_before = ray.initialized,
                                     !.s3list = s3list, !.listing = listing]
       IN  IF file_name_pattern.isNone /\ s3_bucket_name.isNone
           THEN /\ last' = BatchRaise("ValueError")
                /\ call' = started
                /\ UNCHANGED ray
           ELSE IF files.raised
           THEN /\ last' = BatchRaise(files.exc)
                /\ call' = started
                /\ UNCHANGED ray
           ELSE IF mode = "Parallel" /\ RayInitRaises
           THEN /\ last' = BatchRaise("RuntimeError")
                /\ call' = [started EXCEPT !.listed = TRUE, !.file_names = files.file_names]
                /\ UNCHANGED ray
           ELSE /\ last' = [kind |-> "batch", status |-> "running", exc |-> "", text |-> ""]
                /\ call' = [started EXCEPT
                              !.active = TRUE, !.listed = TRUE,
                              !.file_names = files.file_names,
                              !.submitted = (mode = "Parallel"),
                              !.outcomes = IF mode = "Parallel"
                                           THEN [k \in 1..Len(files.file_names) |-> Pending]
                                           ELSE <<>>]
                /\ ray' = IF mode = "Parallel" THEN [initialized |-> TRUE] ELSE ray
    /\ UNCHANGED <<env, clients>>

\* The reference the batch passes for a file name: a path with a pattern, an
\* S3 object of the bucket otherwise (lines 327-329, 341-344).
ItemArgs(file_name) ==
    IF Truthy(args.file_name_pattern)
    THEN [file_name |-> Some(file_name), image_url |-> None, s3_object |-> NoS3Object]
    ELSE [file_name |-> None, image_url |-> None,
          s3_object |-> S3Object(args.s3_bucket_name.s, file_name)]

\* Lines 340-349: one turn of the Sequential loop.
SeqStep(src, resp) ==
    /\ call.active /\ call.mode = "Sequential"
    /\ Len(call.outcomes) < Len(call.file_names)
    /\ LET file_name == call.file_names[Len(call.outcomes) + 1]
           a == ItemArgs(file_name)
       IN  /\ src \in SourceOutcomes(a.file_name, a.image_url, a.s3_object)
           /\ resp \in ResponsesFor(a.file_name, a.image_url, a.s3_object, src)
           /\ LET response == expense_image_extract(a.file_name, a.image_url, a.s3_object, src, resp)
                  outcome == [kind |-> IF response.status = "raised" THEN "raise"
                                       ELSE IF response.isNone THEN "none" ELSE "result",
                              exc |-> response.exc,
                              source_file_name |-> <<>>,
                              receipt_data |-> response.receipt_data]
              IN  IF response.status = "raised"
                  THEN /\ call' = [call EXCEPT !.active = FALSE,
                                               !.extracted = Append(@, file_name),
                                               !.outcomes = Append(@, outcome)]
                       /\ last' = BatchRaise(response.exc)
                  ELSE /\ call' = [call EXCEPT
                                     !.extracted = Append(@, file_name),
                                     !.outcomes = Append(@, outcome),
                                     !.expense_data_list = SeqCollect(@, file_name, response)]
                       /\ UNCHANGED last
    /\ UNCHANGED <<env, clients, ray, args, result, io>>

\* Lines 351-353 after the Sequential loop.
SeqReturn ==
    /\ call.active /\ call.mode = "Sequential"
    /\ Len(call.outcomes) = Len(call.file_names)
    /\ call' = [call EXCEPT !.active = FALSE]
    /\ last' = BatchReturn
    /\ UNCHANGED <<env, clients, ray, args, result, io>>

\* A ray worker runs task k.
TaskRun(k, src, resp) ==
    /\ call.active /\ call.mode = "Parallel"
    /\ k \in 1..Len(call.outcomes)
    /\ call.outcomes[k].kind = "pending"
    /\ LET a == ItemArgs(call.file_names[k])
       IN  /\ src \in SourceOutcomes(a.file_name, a.image_url, a.s3_object)
           /\ resp \in ResponsesFor(a.file_name, a.image_url, a.s3_object, src)
           /\ call' = [call EXCEPT !.outcomes[k] =
                  _expense_image_extract_parallel(a.file_name, a.image_url, a.s3_object, src, resp)]
    /\ UNCHANGED <<env, clients, ray, args, last, result, io>>

\* ray.get(response_futures) has every result: lines 331-338, 351-353.
\* Mutant: the gather hands back whatever has finished so far.
GatherReady_Early(outcomes) ==
    \A k \in 1..Len(outcomes) : outcomes[k].kind \in {"result", "none", "pending"}

GatherReady(outcomes) ==
    \A k \in 1..Len(outcomes) : outcomes[k].kind \in {"result", "none"}

GatherReturn ==
    /\ call.active /\ call.mode = "Parallel"
    /\ GatherReady(call.outcomes)
    /\ call' = [call EXCEPT !.active = FALSE,
                            !.expense_data_list = ParCollect(call.outcomes)]
    /\ last' = BatchReturn
    /\ UNCHANGED <<env, clients, ray, args, result, io>>

\* ray.get re-raises the exception of a failed task; it may do so before the
\* other tasks have finished.
GatherRaise(k) ==
    /\ call.active /\ call.mode = "Parallel"
    /\ k \in 1..Len(call.outcomes)
    /\ call.outcomes[k].kind = "raise"
    /\ call' = [call EXCEPT !.active = FALSE]
    /\ last' = BatchRaise(call.outcomes[k].exc)
    /\ UNCHANGED <<env, clients, ray, args, result, io>>

----------------------------------------------------------------------------

AllSrc == FileIO \cup UrlIO \cup S3IO
AllResp == Responses \cup {NoResponse}

Next ==
    \/ \E c \in ClientIds, api_key \in ApiKeyArgs : Construct(c, api_key)
    \/ \E c \in ClientIds, a \in ExtractArgs :
          \E src \in SourceOutcomes(a.file_name, a.image_url, a.s3_object) :
             \E resp \in ResponsesFor(a.file_name, a.image_url, a.s3_object, src) :
                Extract(c, a, src, resp)
    \/ \E c \in ClientIds, p \in BatchPatterns, b \in BatchBuckets,
          mode \in BatchExecutionMode :
          \E s3list \in (IF Truthy(p) \/ b.isNone THEN {"ok"} ELSE {"ok", "error"}) :
             \E listing \in (IF (~Truthy(p) /\ b.isNone) \/ s3list = "error"
                             THEN {<<>>} ELSE Listings) :
                BatchStart(c, p, b, mode, s3list, listing)
    \/ \E src \in AllSrc, resp \in AllResp : SeqStep(src, resp)
    \/ SeqReturn
    \/ \E k \in 1..MaxFiles, src \in AllSrc, resp \in AllResp : TaskRun(k, src, resp)
    \/ GatherReturn
    \/ \E k \in 1..MaxFiles : GatherRaise(k)

Spec == Init /\ [][Next]_vars

----------------------------------------------------------------------------
(* Properties *)

Results(outcomes) == {k \in 1..Len(outcomes) : outcomes[k].kind = "result"}
RaisedAt(outcomes) == {k \in 1..Len(outcomes) : outcomes[k].kind = "raise"}
Sources(list) == {list[k].source_file_name : k \in 1..Len(list)}

\* The failures a service answer causes: a non-200 status, a malformed body.
ServiceExc == {"UnderDocException", "ValidationError"}

\* A Sequential batch call that got past enumeration.
SeqBatch == last.kind = "batch" /\ call.mode = "Sequential" /\ call.listed
\* A Parallel batch call that submitted its tasks.
ParBatch == last.kind = "batch" /\ call.mode = "Parallel" /\ call.submitted

Populated ==
    Cardinality({v \in {"f", "u", "s"} :
        \/ v = "f" /\ ~args.file_name.isNone
        \/ v = "u" /\ ~args.image_url.isNone
        \/ v = "s" /\ ~args.s3_object.isNone})

\* The one reference of a call with a single non-empty reference argument.
TheReference ==
    CASE Truthy(args.file_name) -> args.file_name.s
      [] Truthy(args.image_url) -> args.image_url.s
      [] OTHER -> args.s3_object.object_key

NetworkOps == {"GET", "get_object", "POST"}
IssuedOps == {io[k] : k \in 1..Len(io)}

\* C3 as stated: an extraction of a single reference (file, URL or S3 object,
\* its source otherwise readable) whose extension is not jpg, jpeg or png ends
\* with an unsupported-format error raised to the caller, and no network call
\* is issued.
C3_UnsupportedFormatRaises ==
    (/\ last.kind = "extract"
     /\ Populated = 1
     /\ Variant(args.file_name, args.image_url, args.s3_object) # "unbound"
     /\ args.src = "ok"
     /\ _get_image_format(TheReference).raised)
    => /\ last.status = "raised"
       /\ last.exc = "UnderDocException"
       /\ IssuedOps \cap NetworkOps = {}

\* C4 as stated: an extraction of a single reference whose source cannot be
\* resolved (file open or read error, URL transport or status error, S3 get or
\* read error) raises; a normal return always carries a result.
C4_ResolveFailureRaises ==
    (last.kind = "extract" /\ Populated = 1) =>
        /\ args.src \in {"open_error", "read_error", "request_error",
                         "status_error", "get_error"} => last.status = "raised"
        /\ last.status = "returned" => ~result.isNone

\* C5 as stated: a batch call whose enumeration (a glob, or a bucket listing
\* that the service answered) yields no reference returns an empty report, not
\* an error, in both modes.
C5_EmptyListEmptyReport ==
    (/\ last.kind = "batch" /\ ~call.active
     /\ \/ Truthy(args.file_name_pattern)
        \/ ~args.s3_bucket_name.isNone /\ call.s3list = "ok"
     /\ call.listing = <<>>)
    => /\ last.status = "returned"
       /\ call.expense_data_list = <<>>

\* C6 as stated: after the POST of an extraction of a single reference every
\* unsuccessful outcome is UnderDocException: a non-200 status raises it with
\* the body text, a 200 answer with a non-conforming body raises it too, and a
\* result is returned only for a 200 answer with a conforming body.
C6_ServiceFailuresAreUnderDocException ==
    (last.kind = "extract" /\ Populated = 1 /\ "POST" \in IssuedOps) =>
        /\ result.response.status_code # 200 =>
              /\ last.status = "raised" /\ last.exc = "UnderDocException"
              /\ last.text = result.response.text
        /\ (result.response.status_code = 200 /\ ~Conforms(result.response)) =>
              last.status = "raised" /\ last.exc = "UnderDocException"
        /\ (last.status = "returned" /\ ~result.isNone) <=>
              (result.response.status_code = 200 /\ Conforms(result.response))

\* Position of a name in the enumerated list (names are distinct).
Pos(file_name) == CHOOSE k \in 1..Len(call.file_names) : call.file_names[k] = file_name

\* C7: in Sequential mode the extractor is called once per reference in
\* enumeration order (the calls made so far are a prefix of the enumerated
\* list), and the report is an order-preserving subsequence of the enumerated
\* list: every entry's source is an enumerated reference that succeeded, and
\* entries appear at strictly increasing positions of the list (no reordering,
\* no duplicate).
C7_SequentialOrderPreserved ==
    SeqBatch =>
        LET list == call.expense_data_list
        IN  /\ Len(call.extracted) <= Len(call.file_names)
            /\ call.extracted = SubSeq(call.file_names, 1, Len(call.extracted))
            /\ Len(call.outcomes) = Len(call.extracted)
            /\ \A j \in 1..Len(list) :
                  /\ list[j].source_file_name \in
                        {call.file_names[k] : k \in Results(call.outcomes)}
                  /\ list[j].expense_data =
                        call.outcomes[Pos(list[j].source_file_name)].receipt_data
            /\ \A j, k \in 1..Len(list) :
                  j < k => Pos(list[j].source_file_name) < Pos(list[k].source_file_name)

\* C7 witness: a Sequential batch returned a report of at least two entries.
C7_Witness ==
    /\ SeqBatch /\ last.status = "returned"
    /\ Len(call.expense_data_list) >= 2

\* C8 as stated: a Parallel batch call made when the pool is already
\* initialized reuses it and does not fail on the initialized pool; Sequential
\* calls never initialize it.
C8_ParallelReusesPool ==
    /\ (last.kind = "batch" /\ call.mode = "Parallel" /\ call.listed /\ call.ray_before)
          => ~(last.status = "raised" /\ last.exc = "RuntimeError")
    /\ (last.kind = "batch" /\ call.mode = "Sequential") =>
          ray.initialized = call.ray_before

\* C9 as stated: an extraction call with none or with more than one of the
\* three references passed is rejected with an error before any I/O, and a call
\* with exactly one passed (the empty string included) resolves that variant.
C9_ExactlyOneVariant ==
    last.kind = "extract" =>
        /\ Populated # 1 => last.status = "raised" /\ io = <<>>
        /\ Populated = 1 =>
              Variant(args.file_name, args.image_url, args.s3_object) # "unbound"

\* C10: a client is constructed with the api_key argument when it is given and
\* with the UNDERDOC_API_KEY value of the environment otherwise; construction
\* fails exactly when neither is present; and the stored key and endpoint are
\* still those values after any later extraction or batch call.
C10_ApiKeyResolution ==
    \A c \in ClientIds :
        LET k == clients[c]
        IN  /\ k.state = "failed" => k.arg.isNone /\ env.key.isNone
            /\ k.state = "ok" =>
                  /\ ~(k.arg.isNone /\ env.key.isNone)
                  /\ k.api_key = IF k.arg.isNone THEN env.key ELSE k.arg
                  /\ k.api_endpoint = Settings(env).underdoc_api_endpoint
            /\ last.kind \in {"extract", "batch"} => \E d \in ClientIds : clients[d].state = "ok"

\* C10 witness: a client built with an explicit key, the environment holding
\* another one, after a batch call of that client has returned.
C10_Witness ==
    \E c \in ClientIds :
        /\ clients[c].state = "ok"
        /\ ~clients[c].arg.isNone /\ ~env.key.isNone
        /\ clients[c].arg # env.key
        /\ last.kind = "batch" /\ last.status = "returned"
        /\ Len(call.expense_data_list) > 0

----------------------------------------------------------------------------
(* Format inference on its own *)

\* Longest path the format inference is tried on.
MaxPathLen == 5

\* Characters of the paths: a stem letter, the dot, and the letters of the
\* recognised extensions in both cases.
PathChars == {"a", ".", "j", "p", "e", "g", "n", "J", "P", "G"}

Paths == UNION {[1..n -> PathChars] : n \in 0..MaxPathLen}

FormatInit ==
    /\ env = [key |-> None, endpoint |-> None]
    /\ clients = [c \in ClientIds |-> Unbuilt]
    /\ ray = [initialized |-> FALSE]
    /\ args \in {[NoArgs EXCEPT !.file_name = Some(file_path)] : file_path \in Paths}
    /\ call = NoCall
    /\ last = NoLast
    /\ result = NoResult
    /\ io = <<>>

\* Client._get_image_format applied to the path: last.text holds the format
\* returned, last.exc the exception raised.
FormatInfer ==
    /\ last.kind = "none"
    /\ LET fmt == _get_image_format(args.file_name.s)
       IN  last' = IF fmt.raised
                   THEN [kind |-> "format", status |-> "raised",
                         exc |-> fmt.image_format, text |-> ""]
                   ELSE [kind |-> "format", status |-> "returned",
                         exc |-> "", text |-> fmt.image_format]
    /\ UNCHANGED <<env, clients, ray, args, call, result, io>>

FormatNext == FormatInfer

FormatSpec == FormatInit /\ [][FormatNext]_vars

\* str.lower() on the letters of PathChars.
LowerChar(ch) ==
    CASE ch = "J" -> "j"
      [] ch = "P" -> "p"
      [] ch = "G" -> "g"
      [] OTHER -> ch

Lower(str) == [k \in 1..Len(str) |-> LowerChar(str[k])]

HasDot(str) == \E k \in 1..Len(str) : str[k] = "."

\* C11 as stated: the format depends only on the lower-cased text after the
\* last '.': jpg and jpeg give jpeg, png gives png, in any letter case, and any
\* other suffix, or a name with no '.', is rejected as unsupported.
C11_FormatFromLowercasedSuffix ==
    last.kind = "format" =>
        LET file_path == args.file_name.s
            suffix == Lower(LastSegment(file_path))
        IN  IF HasDot(file_path) /\ suffix \in {<<"j", "p", "g">>, <<"j", "p", "e", "g">>}
                THEN last.status = "returned" /\ last.text = "jpeg"
            ELSE IF HasDot(file_path) /\ suffix = <<"p", "n", "g">>
                THEN last.status = "returned" /\ last.text = "png"
            ELSE last.status = "raised" /\ last.exc = "ValueError"

----------------------------------------------------------------------------
(* Sequential and Parallel reports *)

\* The report both modes are to produce from an enumerated list and the
\* per-item outcomes: the succeeding items, in the order of the list, each with
\* its file name (or object key) and its expense data.
RECURSIVE ExpectedFrom(_, _, _)
ExpectedFrom(file_names, outcomes, k) ==
    IF k > Len(outcomes) THEN <<>>
    ELSE IF outcomes[k].kind = "result"
        THEN <<[source_file_name |-> file_names[k],
                expense_data |-> outcomes[k].receipt_data]>>
             \o ExpectedFrom(file_names, outcomes, k + 1)
    ELSE ExpectedFrom(file_names, outcomes, k + 1)

ExpectedReport == ExpectedFrom(call.file_names, call.outcomes, 1)

\* A batch call that has ended after its enumeration, no item having raised.
EndedWithoutItemRaise ==
    /\ last.kind = "batch" /\ ~call.active /\ call.listed
    /\ RaisedAt(call.outcomes) = {}

\* C12 as stated: for an enumerated list none of whose items raises, a batch
\* call returns, in Sequential and in Parallel mode alike, the same report: the
\* succeeding items in the order of the list, with their file name (or object
\* key) and expense data.
C12_ModesReturnSameReport ==
    EndedWithoutItemRaise =>
        /\ last.status = "returned"
        /\ call.expense_data_list = ExpectedReport

\* C12 for the calls that got as far as processing their items (a Parallel call
\* past ray.init()): these do return that same report in both modes.
C12_SameReportOnceItemsProcessed ==
    (EndedWithoutItemRaise /\ (call.mode = "Parallel" => call.submitted)) =>
        /\ last.status = "returned"
        /\ Len(call.outcomes) = Len(call.file_names)
        /\ call.expense_data_list = ExpectedReport

====
